---- MODULE Spec2Model ----
(***************************************************************************)
(* Model of the CORHOH TEI/XML creator (src/XML-Creator_CORHOH.py).        *)
(*                                                                         *)
(* Text is modelled as a sequence of one-character strings.  The markup    *)
(* that the program writes literally is modelled as multi-character        *)
(* tokens, so an emitted fragment is a sequence of tokens whose            *)
(* concatenation is the emitted string.                                    *)
(***************************************************************************)
EXTENDS Integers, Sequences, FiniteSets, TLC

VARIABLES
    \* parse_transcript_to_turns applied to one transcript
    p_text, p_turns, p_pc,
    \* the replacement loop of smart_read
    r_original, r_content, r_applied,
    \* build_record_xml applied to one row and one transcript
    b_row, b_transcript, b_xml, b_q, b_a, b_pc,
    \* main / generate_corhoh_xml
    metadata_exists, texts_dir_exists, columns, rows, files,
    pc, i, records, total_q, total_a, missing_transcripts, log,
    header_args, output_xml, output_before, exit_status

parse_vars  == <<p_text, p_turns, p_pc>>
repair_vars == <<r_original, r_content, r_applied>>
build_vars  == <<b_row, b_transcript, b_xml, b_q, b_a, b_pc>>
env_vars    == <<metadata_exists, texts_dir_exists, columns, rows, files, output_before>>
run_vars    == <<pc, i, records, total_q, total_a, missing_transcripts, log,
                 header_args, output_xml, exit_status>>
vars == <<parse_vars, repair_vars, build_vars, env_vars, run_vars>>

-----------------------------------------------------------------------------
(* Bounds *)

MaxLines == 3
MaxRepairLen == 4
MaxRows == 3

-----------------------------------------------------------------------------
(* Strings as sequences of characters *)

\* characters for which str.isspace() holds, i.e. what \s matches and
\* what str.strip() removes
Whitespace == {" ", "\t", "\n", "\r", "\f"}

\* characters at which str.splitlines() breaks a line ("\r\n" counts once)
LineBreaks == {"\n", "\r", "\f"}

Digits == {"0", "1", "2", "3", "4", "5", "6", "7", "8", "9"}

Contains(s, old) ==
    \E k \in 1..(Len(s) - Len(old) + 1) : SubSeq(s, k, k + Len(old) - 1) = old

\* str.replace(old, new): every non-overlapping occurrence, left to right
RECURSIVE Replace(_, _, _)
Replace(s, old, new) ==
    IF Len(s) < Len(old) THEN s
    ELSE IF SubSeq(s, 1, Len(old)) = old
         THEN new \o Replace(SubSeq(s, Len(old) + 1, Len(s)), old, new)
         ELSE <<s[1]>> \o Replace(Tail(s), old, new)

RECURSIVE lstrip(_)
lstrip(s) ==
    IF s # <<>> /\ s[1] \in Whitespace THEN lstrip(Tail(s)) ELSE s

RECURSIVE rstrip(_)
rstrip(s) ==
    IF s # <<>> /\ s[Len(s)] \in Whitespace
    THEN rstrip(SubSeq(s, 1, Len(s) - 1)) ELSE s

\* str.strip()
strip(s) == rstrip(lstrip(s))

\* "\n".join(buf)
RECURSIVE join(_)
join(buf) ==
    IF buf = <<>> THEN <<>>
    ELSE IF Len(buf) = 1 THEN buf[1]
    ELSE buf[1] \o <<"\n">> \o join(Tail(buf))

RECURSIVE splitlines_from(_, _)
splitlines_from(rest, cur) ==
    IF rest = <<>> THEN (IF cur = <<>> THEN <<>> ELSE <<cur>>)
    ELSE IF rest[1] = "\r" /\ Len(rest) >= 2 /\ rest[2] = "\n"
         THEN <<cur>> \o splitlines_from(SubSeq(rest, 3, Len(rest)), <<>>)
    ELSE IF rest[1] \in LineBreaks
         THEN <<cur>> \o splitlines_from(Tail(rest), <<>>)
    ELSE splitlines_from(Tail(rest), Append(cur, rest[1]))

\* str.splitlines()
splitlines(text) == splitlines_from(text, <<>>)

-----------------------------------------------------------------------------
(* The marker patterns _Q_RE and _A_RE *)

RECURSIVE TakeDigits(_)
TakeDigits(s) ==
    IF s # <<>> /\ s[1] \in Digits THEN <<s[1]>> \o TakeDigits(Tail(s)) ELSE <<>>

NoMatch == [matched |-> FALSE, digits |-> <<>>, rest |-> <<>>]

\* ^\s*<letter>(\d+)\s*:\s*(.*)\s*$ matched against one line; group 1 is
\* digits, group 2 is rest (the greedy .* takes everything up to the end)
marker_match(line, letter) ==
    LET a == lstrip(line) IN
    IF a = <<>> \/ a[1] # letter THEN NoMatch
    ELSE LET b == Tail(a)
             d == TakeDigits(b)
         IN  IF d = <<>> THEN NoMatch
             ELSE LET c == lstrip(SubSeq(b, Len(d) + 1, Len(b))) IN
                  IF c = <<>> \/ c[1] # ":" THEN NoMatch
                  ELSE [matched |-> TRUE, digits |-> d, rest |-> lstrip(Tail(c))]

Q_RE(line) == marker_match(line, "Q")
A_RE(line) == marker_match(line, "A")

-----------------------------------------------------------------------------
(* parse_transcript_to_turns *)

None == "None"

\* the accumulator before the first line
parse_start == [turns |-> <<>>, cur_type |-> None, cur_label |-> <<>>, cur_buf |-> <<>>]

\* flush() that forgets to trim the joined utterance
flush_untrimmed(st) ==
    IF st.cur_type = None THEN st.turns
    ELSE Append(st.turns, <<st.cur_type, st.cur_label, join(st.cur_buf)>>)

\* flush(): append the open turn, if any
flush(st) ==
    IF st.cur_type = None THEN st.turns
    ELSE Append(st.turns, <<st.cur_type, st.cur_label, strip(join(st.cur_buf))>>)

\* the loop body with the flush() of the answer branch left out
parse_line_no_flush(st, line) ==
    LET m_q == Q_RE(line)
        m_a == A_RE(line)
    IN  IF m_q.matched
        THEN [turns |-> flush(st), cur_type |-> "question",
              cur_label |-> <<"Q">> \o m_q.digits, cur_buf |-> <<m_q.rest>>]
        ELSE IF m_a.matched
        THEN [turns |-> st.turns, cur_type |-> "answer",
              cur_label |-> <<"A">> \o m_a.digits, cur_buf |-> <<m_a.rest>>]
        ELSE IF st.cur_type # None
        THEN [st EXCEPT !.cur_buf = Append(@, line)]
        ELSE st

\* one iteration of the loop over the lines
parse_line(st, line) ==
    LET m_q == Q_RE(line)
        m_a == A_RE(line)
    IN  IF m_q.matched
        THEN [turns |-> flush(st), cur_type |-> "question",
              cur_label |-> <<"Q">> \o m_q.digits, cur_buf |-> <<m_q.rest>>]
        ELSE IF m_a.matched
        THEN [turns |-> flush(st), cur_type |-> "answer",
              cur_label |-> <<"A">> \o m_a.digits, cur_buf |-> <<m_a.rest>>]
        ELSE IF st.cur_type # None
        THEN [st EXCEPT !.cur_buf = Append(@, line)]
        ELSE st

RECURSIVE parse_loop(_, _)
parse_loop(st, lines) ==
    IF lines = <<>> THEN st
    ELSE parse_loop(parse_line(st, lines[1]), Tail(lines))

parse_transcript_to_turns(text) ==
    flush(parse_loop(parse_start, splitlines(text)))

-----------------------------------------------------------------------------
(* smart_read: the repair table applied to the decoded text *)

\* the table with the bare prefix repaired to a typographic apostrophe
replacements_mixed == <<
    [old |-> <<"U+00D5">>, new |-> <<"'">>],
    [old |-> <<"U+00D4">>, new |-> <<"'">>],
    [old |-> <<"U+00D2">>, new |-> <<"\"">>],
    [old |-> <<"U+00D3">>, new |-> <<"\"">>],
    [old |-> <<"U+00D1">>, new |-> <<"U+2014">>],
    [old |-> <<"U+2039">>, new |-> <<"U+00E3">>],
    [old |-> <<"U+221A", "U+00EF", "t">>, new |-> <<"'", "t">>],
    [old |-> <<"U+221A", "U+00EF", "s">>, new |-> <<"'", "s">>],
    [old |-> <<"U+221A", "U+00EF", "l", "l">>, new |-> <<"'", "l", "l">>],
    [old |-> <<"U+221A", "U+00EF">>, new |-> <<"U+2019">>] >>

\* the replacements dict, in insertion order; characters outside ASCII are
\* named by their code point
replacements == <<
    [old |-> <<"U+00D5">>, new |-> <<"'">>],
    [old |-> <<"U+00D4">>, new |-> <<"'">>],
    [old |-> <<"U+00D2">>, new |-> <<"\"">>],
    [old |-> <<"U+00D3">>, new |-> <<"\"">>],
    [old |-> <<"U+00D1">>, new |-> <<"U+2014">>],
    [old |-> <<"U+2039">>, new |-> <<"U+00E3">>],
    [old |-> <<"U+221A", "U+00EF", "t">>, new |-> <<"'", "t">>],
    [old |-> <<"U+221A", "U+00EF", "s">>, new |-> <<"'", "s">>],
    [old |-> <<"U+221A", "U+00EF", "l", "l">>, new |-> <<"'", "l", "l">>],
    [old |-> <<"U+221A", "U+00EF">>, new |-> <<"'">>] >>

\* the body of the loop over replacements.items()
apply_rule(content, rule) ==
    IF Contains(content, rule.old) THEN Replace(content, rule.old, rule.new)
    ELSE content

RECURSIVE apply_rules_from(_, _)
apply_rules_from(content, k) ==
    IF k > Len(replacements) THEN content
    ELSE apply_rules_from(apply_rule(content, replacements[k]), k + 1)

\* smart_read on a file whose decoded text is content
smart_read(content) == apply_rules_from(content, 1)

-----------------------------------------------------------------------------
(* xml.sax.saxutils.escape, called with no entities *)

\* escape with the ampersand replaced last instead of first
escape_amp_last(data) ==
    Replace(Replace(Replace(data, <<">">>, <<"&", "g", "t", ";">>),
                    <<"<">>, <<"&", "l", "t", ";">>),
            <<"&">>, <<"&", "a", "m", "p", ";">>)

escape(data) ==
    Replace(Replace(Replace(data, <<"&">>, <<"&", "a", "m", "p", ";">>),
                    <<">">>, <<"&", "g", "t", ";">>),
            <<"<">>, <<"&", "l", "t", ";">>)

-----------------------------------------------------------------------------
(* Indent *)

IND_CORHOH == "    "
IND_TEXT   == "        "
IND_L2     == "            "
IND_L3     == "                "
IND_L4     == "                    "
IND_L5     == "                        "
IND_L6     == "                            "

NL == "\n"

-----------------------------------------------------------------------------
(* build_record_xml *)

ID_COLUMN == "Documents ID"

\* row.get(key, "")
row_get(row, key) == IF key \in DOMAIN row THEN row[key] ELSE <<>>

\* field(key)
field(row, key) == escape(strip(row_get(row, key)))

\* one element of div_blocks
div_block(turn, nl) ==
    LET ttype == turn[1]
        label == turn[2]
        utt   == turn[3]
        role  == IF ttype = "question" THEN "interviewer" ELSE "interviewee"
    IN  <<IND_L5, "<div type=\"", ttype, "\">", nl,
          IND_L6, "<speaker role=\"", role, "\">">> \o escape(label) \o <<"</speaker>", nl,
          IND_L6, "<u>">> \o escape(utt) \o <<"</u>", nl,
          IND_L5, "</div>">>

\* nl.join(div_blocks) + (nl if div_blocks else "")
RECURSIVE join_divs(_, _)
join_divs(turns, nl) ==
    IF turns = <<>> THEN <<>>
    ELSE div_block(turns[1], nl) \o <<nl>> \o join_divs(Tail(turns), nl)

\* one line of the meta block: <tag>field(column)</tag>
meta_line(row, tag, column, nl) ==
    <<IND_L4, "<" \o tag \o ">">> \o field(row, column) \o <<"</" \o tag \o ">", nl>>

RECURSIVE count_kind(_, _)
count_kind(turns, kind) ==
    IF turns = <<>> THEN 0
    ELSE (IF turns[1][1] = kind THEN 1 ELSE 0) + count_kind(Tail(turns), kind)

build_record_xml(row, transcript_text, nl) ==
    LET doc_id == field(row, ID_COLUMN)
        turns  == parse_transcript_to_turns(transcript_text)
        xml ==
            <<IND_TEXT, "<text id=\"">> \o doc_id \o <<"\">", nl,
              IND_L2, "<meta>", nl,
              IND_L3, "<Oral_History_Details>", nl,
              IND_L4, "<Documents_ID>">> \o doc_id \o <<"</Documents_ID>", nl>>
            \o meta_line(row, "Rec_Date", "Rec_Date", nl)
            \o meta_line(row, "Rec_Length", "Length", nl)
            \o meta_line(row, "A_Number", "A_#", nl)
            \o meta_line(row, "Q_Number", "Q_#", nl)
            \o meta_line(row, "permission_type", "permission_type", nl)
            \o meta_line(row, "Link", "Link", nl)
            \o <<IND_L3, "</Oral_History_Details>", nl,
                 IND_L3, "<Individual_Meta_Data>", nl>>
            \o meta_line(row, "Name", "Name", nl)
            \o meta_line(row, "DOB", "DOB", nl)
            \o meta_line(row, "Gender", "Gender", nl)
            \o meta_line(row, "Born", "Born", nl)
            \o meta_line(row, "Ghetto", "Ghetto", nl)
            \o meta_line(row, "Camp", "Camp", nl)
            \o meta_line(row, "Imm_Date", "Imm_Date", nl)
            \o meta_line(row, "Imm_Destination", "Imm_Destination", nl)
            \o <<IND_L3, "</Individual_Meta_Data>", nl,
                 IND_L2, "</meta>", nl,
                 IND_L2, "<text>", nl,
                 IND_L3, "<body>", nl,
                 IND_L4, "<div type=\"interview\">", nl,
                 IND_L5, "<head>Interview Transcript</head>", nl>>
            \o join_divs(turns, nl)
            \o <<IND_L4, "</div>", nl,
                 IND_L3, "</body>", nl,
                 IND_L2, "</text>", nl,
                 IND_TEXT, "</text>">>
    IN  [xml |-> xml,
         q_count |-> count_kind(turns, "question"),
         a_count |-> count_kind(turns, "answer")]

-----------------------------------------------------------------------------
(* fixed_header_block *)

DigitChars == <<"0", "1", "2", "3", "4", "5", "6", "7", "8", "9">>

\* str(n) for a non-negative int, as in the f-string {total_q}
RECURSIVE int_str(_)
int_str(n) ==
    IF n < 10 THEN <<DigitChars[n + 1]>>
    ELSE int_str(n \div 10) \o <<DigitChars[(n % 10) + 1]>>

\* the static parts of the header are kept as single tokens
fixed_header_block(tq, ta, nl) ==
    <<IND_CORHOH, "<teiHeader>", nl,
      IND_TEXT, "<fileDesc>...</fileDesc>", nl,
      IND_TEXT, "<profileDesc>", nl,
      IND_L2, "<abstract>", "CORHOH ... In this version, the dataset contains ">>
    \o int_str(tq) \o <<" questions and ">> \o int_str(ta)
    \o <<" answers, providing ... license.", "</abstract>", nl,
         IND_TEXT, "</profileDesc>", nl,
         IND_TEXT, "<revisionDesc>", nl,
         IND_L2, "<change when=\"2025-02-01\">Initial TEI encoding applied.</change>", nl,
         IND_L2, "<change when=\"2026-01-19\">", "Modified release: ... Counts updated to ">>
    \o int_str(tq) \o <<" questions and ">> \o int_str(ta)
    \o <<" answers.", "</change>", nl,
         IND_TEXT, "</revisionDesc>", nl,
         IND_CORHOH, "</teiHeader>", nl>>

-----------------------------------------------------------------------------
(* Inputs *)

L_q1     == <<"Q", "1", ":", " ", "H", "e", "l", "l", "o">>
L_world  == <<"w", "o", "r", "l", "d">>
L_a1     == <<"A", "1", ":", " ", "H", "i", " ", "t", "h", "e", "r", "e">>
L_padded == <<" ", " ", "Q", "1", "2", " ", ":", " ", " ", "x", " ", " ">>
L_lower  == <<"q", "1", ":", " ", "x">>
L_nonum  == <<"Q", ":", " ", "x">>
L_bare   == <<"A", "2", ":">>
L_breaks == <<"y", "\f", "A", "3", ":", " ", "z", "\r", "\n", "w">>

SampleLines == {<<>>, L_q1, L_world, L_a1, L_padded, L_lower, L_nonum, L_bare, L_breaks}

\* a piece of text ends with a newline or runs into the next piece
Terminators == {<<"\n">>, <<>>}

RECURSIVE Texts(_)
Texts(n) ==
    IF n = 0 THEN {<<>>}
    ELSE Texts(n - 1) \cup
         {t \o l \o e : t \in Texts(n - 1), l \in SampleLines, e \in Terminators}

T_example == L_q1 \o <<"\n">> \o L_world \o <<"\n">> \o L_a1
T_qqa     == <<"Q", "1", ":", " ", "a", "\n", "Q", "2", ":", " ", "b", "\n", "A", "1", ":", " ", "c", "\n">>
T_plain   == <<"n", "o", " ", "m", "a", "r", "k", "e", "r", "s", "\n", "h", "e", "r", "e">>
T_special == <<"Q", "1", ":", " ", "a", "<", "b", " ", "&", " ", "\"", "c", "\"", "\n", "A", "1", ":", " ", "'", "x", "'", " ", ">", " ", "y">>
T_legacy  == <<"Q", "1", ":", " ", "d", "o", "n", "U+221A", "U+00EF", "t", "\n",
               "A", "1", ":", " ", "U+00D2", "n", "o", "U+00D3">>

V_pad  == <<" ", "7", " ">>
V_amp  == <<"a", "&", "b">>
V_tags == <<"<", "b", ">">>
V_ent  == <<"&", "l", "t", ";">>
V_quot == <<"a", "\"", "b">>
V_apos == <<"'">>

SampleValues == {<<>>, V_pad, V_amp, V_tags, V_ent, V_quot, V_apos}

OptionalColumns ==
    {"Rec_Date", "Length", "A_#", "Q_#", "permission_type", "Link", "Name",
     "DOB", "Gender", "Born", "Ghetto", "Camp", "Imm_Date", "Imm_Destination"}

AllColumns == {ID_COLUMN} \cup OptionalColumns

\* a row over the columns cols: the identifier, one more value, the rest
\* empty (read_metadata turns every missing value into "")
MkRow(cols, id, k, v) ==
    [c \in cols |-> IF c = ID_COLUMN THEN id ELSE IF c = k THEN v ELSE <<>>]

-----------------------------------------------------------------------------
(* Idle values of the parts a specification does not use *)

ParseIdle  == p_text = <<>> /\ p_turns = <<>> /\ p_pc = "idle"
RepairIdle == r_original = <<>> /\ r_content = <<>> /\ r_applied = {} 
BuildIdle  == /\ b_row = MkRow({ID_COLUMN}, <<>>, ID_COLUMN, <<>>)
              /\ b_transcript = <<>> /\ b_xml = <<>> /\ b_q = 0 /\ b_a = 0
              /\ b_pc = "idle"

NotExited == -1
NoFile    == [exists |-> FALSE, content |-> <<>>]

RunIdle ==
    /\ metadata_exists = FALSE /\ texts_dir_exists = FALSE
    /\ columns = {ID_COLUMN} /\ rows = <<>> /\ files = <<>>
    /\ output_before = NoFile
    /\ pc = "idle" /\ i = 0 /\ records = <<>> /\ total_q = 0 /\ total_a = 0
    /\ missing_transcripts = 0 /\ log = <<>> /\ header_args = <<>>
    /\ output_xml = NoFile /\ exit_status = NotExited

-----------------------------------------------------------------------------
(* parse_transcript_to_turns on every sample transcript *)

InitParse ==
    /\ p_text \in Texts(MaxLines)
    /\ p_turns = <<>>
    /\ p_pc = "start"
    /\ RepairIdle /\ BuildIdle /\ RunIdle

Parse ==
    /\ p_pc = "start"
    /\ p_turns' = parse_transcript_to_turns(p_text)
    /\ p_pc' = "done"
    /\ UNCHANGED <<p_text, repair_vars, build_vars, env_vars, run_vars>>

NextParse == Parse

SpecParse == InitParse /\ [][NextParse]_vars

-----------------------------------------------------------------------------
(* The replacement rules of smart_read, applied once each in any order *)

RepairAlphabet == {"U+221A", "U+00EF", "t", "l", "U+00D5"}

RepairInputs == UNION {[1..n -> RepairAlphabet] : n \in 0..MaxRepairLen}

RuleIds == 1..Len(replacements)

InitRepair ==
    /\ r_original \in RepairInputs
    /\ r_content = r_original
    /\ r_applied = {}
    /\ ParseIdle /\ BuildIdle /\ RunIdle

ApplyRule ==
    \E k \in RuleIds \ r_applied :
        /\ r_content' = apply_rule(r_content, replacements[k])
        /\ r_applied' = r_applied \cup {k}
        /\ UNCHANGED <<r_original, parse_vars, build_vars, env_vars, run_vars>>

NextRepair == ApplyRule

SpecRepair == InitRepair /\ [][NextRepair]_vars

-----------------------------------------------------------------------------
(* build_record_xml on every sample row and transcript *)

BuildRows ==
    {MkRow(cols, id, k, v) :
        cols \in {AllColumns, OptionalColumns}, id \in SampleValues,
        k \in OptionalColumns, v \in SampleValues}

BuildTranscripts == {<<>>, T_example, T_special}

InitBuild ==
    /\ b_row \in BuildRows
    /\ b_transcript \in BuildTranscripts
    /\ b_xml = <<>> /\ b_q = 0 /\ b_a = 0
    /\ b_pc = "start"
    /\ ParseIdle /\ RepairIdle /\ RunIdle

Build ==
    /\ b_pc = "start"
    /\ LET r == build_record_xml(b_row, b_transcript, NL) IN
        /\ b_xml' = r.xml
        /\ b_q' = r.q_count
        /\ b_a' = r.a_count
    /\ b_pc' = "done"
    /\ UNCHANGED <<b_row, b_transcript, parse_vars, repair_vars, env_vars, run_vars>>

NextBuild == Build

SpecBuild == InitBuild /\ [][NextBuild]_vars

-----------------------------------------------------------------------------
(* main and generate_corhoh_xml *)

\* the identifiers of the sample metadata rows, and those identifiers
\* trimmed: the names <id>.txt looked up in the transcripts directory
RunIds   == {V_pad, V_amp, V_quot, <<>>}
RunNames == {strip(id) : id \in RunIds}

Missing    == [kind |-> "missing", content |-> <<>>]
Unreadable == [kind |-> "unreadable", content |-> <<>>]
File(text) == [kind |-> "file", content |-> text]

\* sample contents of the transcripts directory; an unreadable entry exists
\* but reading it raises (a directory, a file without read permission)
SampleFiles ==
    { [n \in RunNames |-> Missing],
      [n \in RunNames |-> IF n = <<"7">> THEN File(T_example)
                          ELSE IF n = V_amp THEN File(T_qqa) ELSE Missing],
      [n \in RunNames |-> IF n = <<"7">> THEN File(T_plain)
                          ELSE IF n = V_quot THEN File(T_legacy) ELSE Missing],
      [n \in RunNames |-> IF n = <<"7">> THEN File(T_special)
                          ELSE IF n = V_amp THEN Unreadable ELSE File(T_example)] }

SampleOutputs == {NoFile, [exists |-> TRUE, content |-> <<"<old/>">>]}

RunRows(cols) == {MkRow(cols, id, "Name", V_tags) : id \in RunIds}

RowSeqs(cols) == UNION {[1..n -> RunRows(cols)] : n \in 0..MaxRows}

Init ==
    /\ metadata_exists \in BOOLEAN
    /\ texts_dir_exists \in BOOLEAN
    /\ columns \in {AllColumns, OptionalColumns}
    /\ rows \in RowSeqs(columns)
    /\ files \in SampleFiles
    /\ output_before \in SampleOutputs
    /\ output_xml = output_before
    /\ pc = "main"
    /\ i = 0 /\ records = <<>> /\ total_q = 0 /\ total_a = 0
    /\ missing_transcripts = 0 /\ log = <<>> /\ header_args = <<>>
    /\ exit_status = NotExited
    /\ ParseIdle /\ RepairIdle /\ BuildIdle

Logged(level, event, arg) == [level |-> level, event |-> event, arg |-> arg]

\* an exception that nothing catches leaves main and ends the interpreter
UncaughtStatus == 1

\* main: the metadata file does not exist
MainMetadataMissing ==
    /\ pc = "main"
    /\ ~metadata_exists
    /\ log' = Append(log, Logged("ERROR", "metadata_not_found", <<>>))
    /\ exit_status' = 2
    /\ pc' = "exit"
    /\ UNCHANGED <<i, records, total_q, total_a, missing_transcripts,
                   header_args, output_xml>>
    /\ UNCHANGED <<parse_vars, repair_vars, build_vars, env_vars>>

\* main: the transcripts directory does not exist
MainTextsDirMissing ==
    /\ pc = "main"
    /\ metadata_exists
    /\ ~texts_dir_exists
    /\ log' = Append(log, Logged("ERROR", "texts_dir_not_found", <<>>))
    /\ exit_status' = 2
    /\ pc' = "exit"
    /\ UNCHANGED <<i, records, total_q, total_a, missing_transcripts,
                   header_args, output_xml>>
    /\ UNCHANGED <<parse_vars, repair_vars, build_vars, env_vars>>

\* main without the test of the transcripts directory
MainCallGenerate_unchecked ==
    /\ pc = "main"
    /\ metadata_exists
    /\ pc' = "read_metadata"
    /\ UNCHANGED <<i, records, total_q, total_a, missing_transcripts, log,
                   header_args, output_xml, exit_status>>
    /\ UNCHANGED <<parse_vars, repair_vars, build_vars, env_vars>>

\* main calls generate_corhoh_xml
MainCallGenerate ==
    /\ pc = "main"
    /\ metadata_exists
    /\ texts_dir_exists
    /\ pc' = "read_metadata"
    /\ UNCHANGED <<i, records, total_q, total_a, missing_transcripts, log,
                   header_args, output_xml, exit_status>>
    /\ UNCHANGED <<parse_vars, repair_vars, build_vars, env_vars>>

\* read_metadata raises KeyError; nothing catches it
ReadMetadataRaises ==
    /\ pc = "read_metadata"
    /\ ID_COLUMN \notin columns
    /\ exit_status' = UncaughtStatus
    /\ pc' = "exit"
    /\ UNCHANGED <<i, records, total_q, total_a, missing_transcripts, log,
                   header_args, output_xml>>
    /\ UNCHANGED <<parse_vars, repair_vars, build_vars, env_vars>>

\* the output file opened for writing before the loop
ReadMetadata_truncating ==
    /\ pc = "read_metadata"
    /\ ID_COLUMN \in columns
    /\ records' = <<>>
    /\ total_q' = 0
    /\ total_a' = 0
    /\ missing_transcripts' = 0
    /\ i' = 0
    /\ pc' = "loop"
    /\ output_xml' = [exists |-> TRUE, content |-> <<>>]
    /\ UNCHANGED <<log, header_args, exit_status>>
    /\ UNCHANGED <<parse_vars, repair_vars, build_vars, env_vars>>

\* read_metadata returns; the accumulators are initialised
ReadMetadata ==
    /\ pc = "read_metadata"
    /\ ID_COLUMN \in columns
    /\ records' = <<>>
    /\ total_q' = 0
    /\ total_a' = 0
    /\ missing_transcripts' = 0
    /\ i' = 0
    /\ pc' = "loop"
    /\ UNCHANGED <<log, header_args, output_xml, exit_status>>
    /\ UNCHANGED <<parse_vars, repair_vars, build_vars, env_vars>>

\* what the path texts_dir / "<doc_id>.txt" leads to
file_at(doc_id) == IF texts_dir_exists THEN files[doc_id] ELSE Missing

\* doc_id of the loop body
doc_id_of(row) == strip(row_get(row, ID_COLUMN))

\* the transcript the loop body hands to build_record_xml for a row
transcript_of(row) ==
    LET f == file_at(doc_id_of(row)) IN
    IF f.kind = "missing" THEN <<>> ELSE smart_read(f.content)

\* the counter left alone
missing_after_forgotten(m, f) == m

\* missing_transcripts after the existence test of one row
missing_after(m, f) == IF f.kind = "missing" THEN m + 1 ELSE m

\* the fragment put in front of the list
records_after_prepend(recs, rec_xml) == <<rec_xml>> \o recs

\* records.append(rec_xml)
records_after(recs, rec_xml) == Append(recs, rec_xml)

\* the total assigned instead of incremented
total_after_assign(total, n) == n

\* total_q += q, total_a += a
total_after(total, n) == total + n

\* one iteration of the loop over the rows
ProcessRow ==
    /\ pc = "loop"
    /\ i < Len(rows)
    /\ LET row    == rows[i + 1]
           doc_id == doc_id_of(row)
           f      == file_at(doc_id)
           r      == build_record_xml(row, transcript_of(row), NL)
           warned == IF f.kind = "missing"
                     THEN Append(log, Logged("WARNING", "missing_transcript", doc_id))
                     ELSE log
       IN  /\ f.kind # "unreadable"
           /\ missing_transcripts' = missing_after(missing_transcripts, f)
           /\ records' = records_after(records, r.xml)
           /\ total_q' = total_after(total_q, r.q_count)
           /\ total_a' = total_after(total_a, r.a_count)
           /\ log' = IF (i + 1) % 50 = 0
                     THEN Append(warned, Logged("INFO", "processed", int_str(i + 1)))
                     ELSE warned
    /\ i' = i + 1
    /\ UNCHANGED <<pc, header_args, output_xml, exit_status>>
    /\ UNCHANGED <<parse_vars, repair_vars, build_vars, env_vars>>

\* smart_read raises for the row's transcript; nothing catches it
ProcessRowRaises ==
    /\ pc = "loop"
    /\ i < Len(rows)
    /\ file_at(doc_id_of(rows[i + 1])).kind = "unreadable"
    /\ exit_status' = UncaughtStatus
    /\ pc' = "exit"
    /\ UNCHANGED <<i, records, total_q, total_a, missing_transcripts, log,
                   header_args, output_xml>>
    /\ UNCHANGED <<parse_vars, repair_vars, build_vars, env_vars>>

\* "\n".join(records)
RECURSIVE join_records(_)
join_records(recs) ==
    IF recs = <<>> THEN <<>>
    ELSE IF Len(recs) = 1 THEN recs[1]
    ELSE recs[1] \o <<"\n">> \o join_records(Tail(recs))

\* the document assembled after the loop
tei(recs, tq, ta) ==
    <<"<?xml version=\"1.0\" encoding=\"UTF-8\"?>", "\n",
      "<TEI xmlns=\"http://www.tei-c.org/ns/1.0\">", "\n">>
    \o fixed_header_block(tq, ta, "\n")
    \o <<"\n", IND_CORHOH, "<CORHOH>", "\n">>
    \o join_records(recs) \o <<"\n">>
    \o <<IND_CORHOH, "</CORHOH>", "\n", "</TEI>", "\n">>

\* after the loop: the summary, the header, the write, and main returns 0
Finish ==
    /\ pc = "loop"
    /\ i = Len(rows)
    /\ LET l1 == Append(log, Logged("INFO", "totals", int_str(total_q) \o <<"|">> \o int_str(total_a)))
           l2 == IF missing_transcripts # 0
                 THEN Append(l1, Logged("WARNING", "missing_total", int_str(missing_transcripts)))
                 ELSE l1
       IN  log' = Append(l2, Logged("INFO", "wrote_output", <<>>))
    /\ header_args' = <<total_q, total_a>>
    /\ output_xml' = [exists |-> TRUE, content |-> tei(records, total_q, total_a)]
    /\ exit_status' = 0
    /\ pc' = "exit"
    /\ UNCHANGED <<i, records, total_q, total_a, missing_transcripts>>
    /\ UNCHANGED <<parse_vars, repair_vars, build_vars, env_vars>>

Next ==
    \/ MainMetadataMissing
    \/ MainTextsDirMissing
    \/ MainCallGenerate
    \/ ReadMetadataRaises
    \/ ReadMetadata
    \/ ProcessRow
    \/ ProcessRowRaises
    \/ Finish

Spec == Init /\ [][Next]_vars

-----------------------------------------------------------------------------
(* Properties of parse_transcript_to_turns *)

IsQuestionLine(line) == Q_RE(line).matched
IsAnswerLine(line)   == A_RE(line).matched
IsMarkerLine(line)   == IsQuestionLine(line) \/ IsAnswerLine(line)

\* the positions of the marker lines among lines
MarkerPositions(lines) == {k \in 1..Len(lines) : IsMarkerLine(lines[k])}

\* the position of the n-th marker line
NthMarker(lines, n) ==
    CHOOSE k \in MarkerPositions(lines) :
        Cardinality({j \in MarkerPositions(lines) : j <= k}) = n

\* the position after the last line that belongs to the n-th marker
EndOfMarker(lines, n) ==
    IF n = Cardinality(MarkerPositions(lines)) THEN Len(lines) + 1
    ELSE NthMarker(lines, n + 1)

\* the turn that the n-th marker line of lines stands for
ExpectedTurn(lines, n) ==
    LET k    == NthMarker(lines, n)
        isQ  == IsQuestionLine(lines[k])
        m    == IF isQ THEN Q_RE(lines[k]) ELSE A_RE(lines[k])
        body == <<m.rest>> \o SubSeq(lines, k + 1, EndOfMarker(lines, n) - 1)
    IN  <<IF isQ THEN "question" ELSE "answer",
          <<IF isQ THEN "Q" ELSE "A">> \o m.digits,
          strip(join(body))>>

\* C2: the number of turns is the number of lines matching the question
\* marker pattern plus the number of lines matching the answer marker
\* pattern (upper-case Q and A only); no marker line, no turn.
C2_TurnCount ==
    p_pc = "done" =>
        LET lines == splitlines(p_text)
            nq == Cardinality({k \in 1..Len(lines) : IsQuestionLine(lines[k])})
            na == Cardinality({k \in 1..Len(lines) : IsAnswerLine(lines[k])})
        IN  /\ Len(p_turns) = nq + na
            /\ (nq + na = 0 => p_turns = <<>>)

\* a parsed transcript with a lower-case q line that is not counted
C2_Witness ==
    /\ p_pc = "done"
    /\ Len(p_turns) = 2
    /\ \E k \in 1..Len(splitlines(p_text)) : splitlines(p_text)[k] = L_lower

\* C3: the k-th turn is the k-th marker line in transcript order: kind by
\* the marker letter, label the letter followed by the digits, utterance
\* the remainder of the marker line and the lines up to the next marker
\* line, joined by newlines and trimmed; lines before the first marker are
\* in no turn; "Q1: Hello\nworld\nA1: Hi there" gives the two turns
\* (question, Q1, "Hello\nworld") and (answer, A1, "Hi there").
C3_TurnsFollowMarkers ==
    p_pc = "done" =>
        LET lines == splitlines(p_text) IN
        /\ Len(p_turns) = Cardinality(MarkerPositions(lines))
        /\ \A n \in 1..Len(p_turns) : p_turns[n] = ExpectedTurn(lines, n)
        /\ (p_text = T_example =>
                p_turns = << <<"question", <<"Q", "1">>, <<"H", "e", "l", "l", "o", "\n", "w", "o", "r", "l", "d">> >>,
                             <<"answer", <<"A", "1">>, <<"H", "i", " ", "t", "h", "e", "r", "e">> >> >>)

\* the example transcript, parsed
C3_Witness ==
    /\ p_pc = "done"
    /\ p_text = T_example
    /\ Len(p_turns) = 2

-----------------------------------------------------------------------------
(* Property of the repair table of smart_read *)

\* C9: applying the ten replacements once each, in any order, gives what
\* applying them in the order of the table gives, the overlapping keys
\* included.
C9_OrderIndependent ==
    r_applied = RuleIds => r_content = smart_read(r_original)

\* all ten rules applied, in some order, to a text in which the key of the
\* bare prefix overlaps a longer key
C9_Witness ==
    /\ r_applied = RuleIds
    /\ r_original = <<"U+00D5", "U+221A", "U+00EF", "t">>
    /\ r_content = <<"'", "'", "t">>

-----------------------------------------------------------------------------
(* Properties of build_record_xml *)

\* the position of the first token tok of xml after position from
NextToken(xml, tok, from) ==
    CHOOSE k \in (from + 1)..Len(xml) :
        xml[k] = tok /\ \A j \in (from + 1)..(k - 1) : xml[j] # tok

HasToken(xml, tok) == \E k \in 1..Len(xml) : xml[k] = tok

\* what stands between the first token open and the next token close
Between(xml, open, close) ==
    LET a == NextToken(xml, open, 0)
        b == NextToken(xml, close, a)
    IN  SubSeq(xml, a + 1, b - 1)

\* a value with each reserved character replaced by its entity
RECURSIVE Entities(_)
Entities(v) ==
    IF v = <<>> THEN <<>>
    ELSE (CASE v[1] = "&" -> <<"&", "a", "m", "p", ";">>
            [] v[1] = "<" -> <<"&", "l", "t", ";">>
            [] v[1] = ">" -> <<"&", "g", "t", ";">>
            [] OTHER      -> <<v[1]>>) \o Entities(Tail(v))

\* pat stands in seg at position k
HasAt(seg, k, pat) ==
    /\ k + Len(pat) - 1 <= Len(seg)
    /\ SubSeq(seg, k, k + Len(pat) - 1) = pat

\* no raw '<' or '>', and every '&' starts one of the three entities
OnlyEscaped(seg) ==
    \A k \in 1..Len(seg) :
        /\ seg[k] \notin {"<", ">"}
        /\ seg[k] = "&" =>
              \/ HasAt(seg, k, <<"&", "a", "m", "p", ";">>)
              \/ HasAt(seg, k, <<"&", "l", "t", ";">>)
              \/ HasAt(seg, k, <<"&", "g", "t", ";">>)

\* the elements of the meta block and the columns they render
MetaFields == <<
    <<"Documents_ID", ID_COLUMN>>, <<"Rec_Date", "Rec_Date">>,
    <<"Rec_Length", "Length">>, <<"A_Number", "A_#">>, <<"Q_Number", "Q_#">>,
    <<"permission_type", "permission_type">>, <<"Link", "Link">>,
    <<"Name", "Name">>, <<"DOB", "DOB">>, <<"Gender", "Gender">>,
    <<"Born", "Born">>, <<"Ghetto", "Ghetto">>, <<"Camp", "Camp">>,
    <<"Imm_Date", "Imm_Date">>, <<"Imm_Destination", "Imm_Destination">> >>

\* the content of the element tag of the fragment xml
ElementText(xml, tag) == Between(xml, "<" \o tag \o ">", "</" \o tag \o ">")

\* the fragment xml opens with <text id="value">
OpensWithId(xml, value) ==
    /\ Len(xml) >= Len(value) + 3
    /\ xml[1] = IND_TEXT
    /\ xml[2] = "<text id=\""
    /\ SubSeq(xml, 3, Len(value) + 2) = value
    /\ xml[Len(value) + 3] = "\">"

\* the value of the id attribute: from the opening quote to the next quote
IdAttribute(xml) ==
    LET stops == {k \in 3..Len(xml) : xml[k] \in {"\"", "\">"}}
        stop  == CHOOSE k \in stops : \A j \in stops : k <= j
    IN  SubSeq(xml, 3, stop - 1)

\* C5: a '<', '>' or '&' of the value of a rendered metadata field (the
\* Documents ID and the 14 optional columns) is in the fragment only as
\* &lt;, &gt; or &amp;; the id attribute and every meta element hold the
\* trimmed value with exactly those characters replaced.
C5_MetadataEscaped ==
    b_pc = "done" =>
        /\ OpensWithId(b_xml, Entities(strip(row_get(b_row, ID_COLUMN))))
        /\ \A n \in 1..Len(MetaFields) :
              LET seg == ElementText(b_xml, MetaFields[n][1])
                  v   == strip(row_get(b_row, MetaFields[n][2]))
              IN  /\ seg = Entities(v)
                  /\ OnlyEscaped(seg)

\* a rendered row with '&' in the identifier and an entity-like value and a
\* tag-like value among the fields
C5_Witness ==
    /\ b_pc = "done"
    /\ row_get(b_row, ID_COLUMN) = V_amp
    /\ \E c \in OptionalColumns : row_get(b_row, c) \in {V_tags, V_ent}
    /\ HasToken(b_xml, "</text>")

\* C4: every value put into the fragment is escaped for the reserved
\* characters, the quote included where the value stands in an attribute
\* (the id of the text element), so that no value breaks the
\* well-formedness of the fragment: the id attribute, read from its opening
\* quote to the next quote, is the whole value that was put there and
\* holds no raw quote, '<' or '&', and no meta element holds a raw '<',
\* '>' or '&'.
C4_AllFiveEscaped ==
    b_pc = "done" =>
        LET attr == IdAttribute(b_xml) IN
        /\ attr = SubSeq(b_xml, 3, NextToken(b_xml, "\">", 2) - 1)
        /\ OnlyEscaped(attr)
        /\ \A k \in 1..Len(b_xml) :
              (2 < k /\ k < NextToken(b_xml, "\">", 2)) => b_xml[k] # "\""
        /\ \A n \in 1..Len(MetaFields) :
              OnlyEscaped(ElementText(b_xml, MetaFields[n][1]))

-----------------------------------------------------------------------------
(* Properties of main and generate_corhoh_xml *)

\* what build_record_xml returns for the k-th metadata row
Rendered(k) == build_record_xml(rows[k], transcript_of(rows[k]), NL)

RECURSIVE SumQ(_)
SumQ(k) == IF k = 0 THEN 0 ELSE SumQ(k - 1) + Rendered(k).q_count

RECURSIVE SumA(_)
SumA(k) == IF k = 0 THEN 0 ELSE SumA(k - 1) + Rendered(k).a_count

\* the k-th metadata row has no transcript file
IsMissing(k) == file_at(doc_id_of(rows[k])).kind = "missing"

MissingRows(k) == {j \in 1..k : IsMissing(j)}

\* the positions of the log entries of one event
LogEntries(l, event) == {k \in 1..Len(l) : l[k].event = event}

CountTokens(xml, tok) == Cardinality({k \in 1..Len(xml) : xml[k] = tok})

\* C1: after the first i records total_q and total_a are the sums of the
\* counts build_record_xml returned for those records, and the totals
\* handed to fixed_header_block are the sums over all records.
C1_TotalsAreSums ==
    /\ pc = "loop" => (total_q = SumQ(i) /\ total_a = SumA(i))
    /\ header_args # <<>> =>
          /\ header_args = <<SumQ(Len(rows)), SumA(Len(rows))>>
          /\ output_xml.content = tei(records, SumQ(Len(rows)), SumA(Len(rows)))

\* a header built from the counts of several records with turns
C1_Witness ==
    /\ header_args # <<>>
    /\ Len(rows) >= 2
    /\ \E j, k \in 1..Len(rows) :
          j # k /\ Rendered(j).q_count = 2 /\ Rendered(k).q_count = 1
    /\ header_args[1] >= 3
    /\ header_args[2] >= 2

\* C6: a row without a transcript file still gets a text element, with no
\* turn div, adds 0 to both totals and one warning to the log, and the loop
\* goes on; after the loop there is an aggregate warning exactly if a
\* transcript was missing, and it carries the number of such rows.
C6_MissingTranscripts ==
    /\ [](pc \in {"loop", "exit"} /\ ID_COLUMN \in columns =>
            /\ missing_transcripts = Cardinality(MissingRows(i))
            /\ Cardinality(LogEntries(log, "missing_transcript")) = Cardinality(MissingRows(i))
            /\ \A k \in MissingRows(i) :
                  /\ k <= Len(records)
                  /\ HasToken(records[k], "<text id=\"")
                  /\ CountTokens(records[k], "<div type=\"") = 0
                  /\ CountTokens(records[k], "<u>") = 0
            /\ (exit_status = 0 =>
                  /\ i = Len(rows)
                  /\ (LogEntries(log, "missing_total") # {}) <=> (MissingRows(i) # {})
                  /\ \A k \in LogEntries(log, "missing_total") :
                        /\ log[k].level = "WARNING"
                        /\ log[k].arg = int_str(Cardinality(MissingRows(i)))
                  /\ Cardinality(LogEntries(log, "missing_total")) <= 1))
    /\ [][(pc = "loop" /\ i < Len(rows) /\ IsMissing(i + 1)) =>
            /\ pc' = "loop"
            /\ i' = i + 1
            /\ Len(records') = Len(records) + 1
            /\ total_q' = total_q
            /\ total_a' = total_a
            /\ log' = Append(log, Logged("WARNING", "missing_transcript", doc_id_of(rows[i + 1])))]_vars

\* a finished run in which two transcripts were missing and a row with a
\* transcript came after a row without one
C6_Witness ==
    /\ pc = "exit"
    /\ exit_status = 0
    /\ Cardinality(MissingRows(Len(rows))) = 2
    /\ \E j, k \in 1..Len(rows) : j < k /\ IsMissing(j) /\ ~IsMissing(k)
    /\ LogEntries(log, "missing_total") # {}

\* C7: with the metadata file missing, the transcripts directory missing
\* or the 'Documents ID' column missing, the run ends with a non-zero
\* status, the output file as it was and no record rendered; the two
\* existence failures end it with status 2; status 0 comes only with
\* generate_corhoh_xml completed and the output written.
C7_FatalConditions ==
    pc = "exit" =>
        /\ exit_status # NotExited
        /\ (~metadata_exists \/ ~texts_dir_exists \/ ID_COLUMN \notin columns) =>
              /\ exit_status # 0
              /\ output_xml = output_before
              /\ records = <<>>
              /\ header_args = <<>>
        /\ (~metadata_exists \/ ~texts_dir_exists) => exit_status = 2
        /\ exit_status = 0 =>
              /\ i = Len(rows)
              /\ Len(records) = Len(rows)
              /\ header_args = <<total_q, total_a>>
              /\ output_xml = [exists |-> TRUE, content |-> tei(records, total_q, total_a)]
              /\ log[Len(log)].event = "wrote_output"

\* a run ended by the missing identifier column, both paths existing and
\* an output file already there
C7_Witness ==
    /\ pc = "exit"
    /\ metadata_exists
    /\ texts_dir_exists
    /\ ID_COLUMN \notin columns
    /\ rows # <<>>
    /\ output_before.exists
    /\ exit_status = UncaughtStatus

\* the fragments of the document doc: what follows each <text id=" up to
\* the closing </text> of the fragment
RECURSIVE TextElements(_)
TextElements(doc) ==
    IF ~HasToken(doc, "<text id=\"") THEN <<>>
    ELSE LET a == NextToken(doc, "<text id=\"", 0)
             b == NextToken(doc, "</text>", NextToken(doc, "</text>", a))
         IN  <<SubSeq(doc, a - 1, b)>> \o TextElements(SubSeq(doc, b + 1, Len(doc)))

C10_OutputWrittenOnceAtEnd ==
    /\ []((pc \in {"main", "read_metadata", "loop"} \/ exit_status # 0) =>
             output_xml = output_before)
    /\ [][output_xml' # output_xml =>
             /\ pc = "loop"
             /\ pc' = "exit"
             /\ i = Len(rows)
             /\ Len(records) = Len(rows)
             /\ output_xml = output_before
             /\ header_args' = <<total_q, total_a>>
             /\ output_xml'.content = tei(records, total_q, total_a)]_vars
    /\ [][pc = "exit" => (pc' = "exit" /\ output_xml' = output_xml)]_vars

\* a failure that left the loop after a record was rendered, an output
\* file being there before the run
C10_Witness ==
    /\ pc = "exit"
    /\ exit_status = UncaughtStatus
    /\ i >= 1
    /\ records # <<>>
    /\ output_before.exists
    /\ output_xml = output_before

====
